---- MODULE Spec2Model ----
(***************************************************************************)
(* Model of fixed_sse_server.py: the Starlette application that bridges    *)
(* the MCP protocol onto an SSE event stream (/sse) and a shared delivery  *)
(* path (/messages/) that answers GET (tool listing) and POST (message     *)
(* delivery).                                                              *)
(*                                                                         *)
(* handle_sse, handle_messages and the route table are translated from    *)
(* the source.  SseServerTransport (the session registry, the channels,   *)
(* the pump, handle_post_message) and the RPC engine                       *)
(* (mcp_server.mcp_server.run, mcp_server._list_tools_impl) are imported   *)
(* by the source and not part of it; they are modelled from the design     *)
(* document's contracts (sections 3, 4.1, 4.2, 4.3, 5, 6).                 *)
(***************************************************************************)
EXTENDS Integers, Sequences, FiniteSets, TLC

\* ------------------------------------------------------------------ bounds
\* Stream connections (one handle_sse task each; a connection is one stream
\* lifetime and is never reopened).
MaxConn == 2
\* Session ids the id generator can draw from.
MaxIds == 2
\* Distinct client message payloads.
MaxMsg == 2
\* Capacity used for a session's inbound channel.
MaxQueue == 2
\* Messages the RPC engine produces per session.
MaxOut == 2
\* Longest capability table the engine returns.
MaxTools == 2

Conns == 1..MaxConn
IdNames == <<"s1", "s2", "s3", "s4", "s5">>
Ids == {IdNames[i] : i \in 1..MaxIds}
Msgs == 1..MaxMsg

\* ------------------------------------------------------------------ state
VARIABLES
    mapping,   \* SessionRegistry.mapping: session id -> connection owning it
    pc,        \* pc[c]: position of the handle_sse task of connection c
    sid,       \* sid[c]: the session id minted for connection c ("" before)
    inbound,   \* inbound[c]: client messages awaiting the RPC engine
    outbound,  \* outbound[c]: engine messages awaiting the event stream
    stream,    \* stream[c]: the events the client has observed on its stream
    nOut,      \* nOut[c]: how many messages the engine has enqueued for c
    created,   \* created[c]: sessions inserted into the registry for c
    removed,   \* removed[c]: sessions evicted from the registry for c
    req,       \* the dispatch request in flight on /messages/ (NoReq if none)
    resp,      \* the response produced for req (NoResp while unhandled)
    calls,     \* collaborator calls made while handling req
    engine,    \* what _list_tools_impl did while handling req (NoOutcome if
               \* it was not called)
    why        \* why[c]: what ended the stream of c ("" while it runs)

vars == <<mapping, pc, sid, inbound, outbound, stream, nOut, created, removed,
          req, resp, calls, engine, why>>

streamVars == <<mapping, pc, sid, inbound, outbound, stream, nOut, created,
                removed, why>>

\* ------------------------------------------------------- requests, responses
\* request.query_params.get("session_id") is None when the parameter is absent.
NoParam == "<absent>"
Methods == {"GET", "POST", "HEAD", "PUT", "DELETE"}
\* An id no session ever carries (a stale or forged session_id).
UnknownId == "unknown"
SidParams == {NoParam, "", UnknownId} \cup Ids
NoBody == [valid |-> FALSE, msg |-> 0]
Bodies == {[valid |-> TRUE, msg |-> m] : m \in Msgs} \cup {NoBody}
\* A POST carries any body; a GET carries none or a well-formed message (which
\* the listing must ignore); the other methods carry none.
Requests ==
    {[method |-> "POST", sid |-> s, body |-> b] : s \in SidParams, b \in Bodies}
    \cup {[method |-> "GET", sid |-> s, body |-> b] :
            s \in SidParams, b \in {NoBody, [valid |-> TRUE, msg |-> 1]}}
    \cup {[method |-> m, sid |-> s, body |-> NoBody] :
            m \in Methods \ {"GET", "POST"}, s \in SidParams}
NoReq == [method |-> "", sid |-> NoParam, body |-> NoBody]
NoResp == [status |-> 0, body |-> [js |-> "text", v |-> ""], fault |-> FALSE]
NoOutcome == [raised |-> FALSE, tools |-> <<>>, msg |-> "<not called>"]
NoDelivery == [to |-> 0, msg |-> 0]

\* ------------------------------------------------------------ registry
\* SessionRegistry.create: a fresh id, one never minted before.
MintedIds == {sid[c] : c \in {d \in Conns : pc[d] # "idle"}}
FreshIdsReuse == Ids \ DOMAIN mapping
FreshIds == Ids \ MintedIds

\* SessionRegistry.remove: evicts the id; a no-op when it is absent.
remove(m, id) == [i \in DOMAIN m \ {id} |-> m[i]]

\* The first event of a stream announces the delivery path and the session id.
EndpointEvent(id) == [event |-> "endpoint", uri |-> "/messages/?session_id=" \o id]
\* The k-th protocol message the engine produces for connection c.
MessageEvent(c, k) == [event |-> "message", data |-> <<c, k>>]

Init ==
    /\ mapping = <<>>
    /\ pc = [c \in Conns |-> "idle"]
    /\ sid = [c \in Conns |-> ""]
    /\ inbound = [c \in Conns |-> <<>>]
    /\ outbound = [c \in Conns |-> <<>>]
    /\ stream = [c \in Conns |-> <<>>]
    /\ nOut = [c \in Conns |-> 0]
    /\ created = [c \in Conns |-> 0]
    /\ removed = [c \in Conns |-> 0]
    /\ why = [c \in Conns |-> ""]
    /\ req = NoReq
    /\ resp = NoResp
    /\ calls = {}
    /\ engine = NoOutcome

\* ------------------------------------------------------------ handle_sse
\* Entering `async with sse.connect_sse(...)`: the transport mints a session,
\* registers it and writes the endpoint event; run() is then started.
connect_sse(c) ==
    /\ pc[c] = "idle"
    /\ \E id \in FreshIds :
        /\ mapping' = [i \in DOMAIN mapping \cup {id} |->
                          IF i = id THEN c ELSE mapping[i]]
        /\ sid' = [sid EXCEPT ![c] = id]
        /\ stream' = [stream EXCEPT ![c] = <<EndpointEvent(id)>>]
    /\ pc' = [pc EXCEPT ![c] = "Open"]
    /\ created' = [created EXCEPT ![c] = @ + 1]
    /\ inbound' = [inbound EXCEPT ![c] = <<>>]
    /\ outbound' = [outbound EXCEPT ![c] = <<>>]
    /\ UNCHANGED <<nOut, removed, why, req, resp, calls, engine>>

\* run() writes a protocol message to write_stream (the outbound channel).
EngineProduce(c) ==
    /\ pc[c] = "Open"
    /\ nOut[c] < MaxOut
    /\ nOut' = [nOut EXCEPT ![c] = @ + 1]
    /\ outbound' = [outbound EXCEPT ![c] = Append(@, MessageEvent(c, nOut[c] + 1))]
    /\ UNCHANGED <<mapping, pc, sid, inbound, stream, created, removed, why,
                   req, resp, calls, engine>>

\* run() reads the next client message from read_stream (the inbound channel).
EngineConsume(c) ==
    /\ pc[c] = "Open"
    /\ inbound[c] # <<>>
    /\ inbound' = [inbound EXCEPT ![c] = Tail(@)]
    /\ UNCHANGED <<mapping, pc, sid, outbound, stream, nOut, created, removed,
                   why, req, resp, calls, engine>>

\* The pump forwards the oldest outbound message to the event stream.
PumpNextNewest(q) == q[Len(q)]
PumpNext(q) == Head(q)
PumpRest(q) == Tail(q)

Pump(c) ==
    /\ pc[c] = "Open"
    /\ outbound[c] # <<>>
    /\ stream' = [stream EXCEPT ![c] = Append(@, PumpNext(outbound[c]))]
    /\ outbound' = [outbound EXCEPT ![c] = PumpRest(@)]
    /\ UNCHANGED <<mapping, pc, sid, inbound, nOut, created, removed, why,
                   req, resp, calls, engine>>

\* What ends a stream: the client disconnects, a stream write fails, run()
\* returns, or run() raises.  Each leaves the `async with` block.
Reasons == {"disconnect", "write_failure", "run_returned", "run_raised"}

\* `async with`: the context manager's exit runs however the block is left,
\* when run() raises as when it returns.
ExitRunsUnlessRaised(r) == r # "run_raised"
ExitRuns(r) == TRUE

\* Leaving `async with sse.connect_sse(...)`, for whichever reason: the exit
\* removes the session from the registry and discards its channels.

Teardown(c) ==
    /\ pc[c] = "Open"
    /\ pc' = [pc EXCEPT ![c] = "Closed"]
    /\ \E r \in Reasons :
        /\ why' = [why EXCEPT ![c] = r]
        /\ IF ExitRuns(r) /\ sid[c] \in DOMAIN mapping
              THEN /\ mapping' = remove(mapping, sid[c])
                   /\ removed' = [removed EXCEPT ![c] = @ + 1]
              ELSE UNCHANGED <<mapping, removed>>
    /\ inbound' = [inbound EXCEPT ![c] = <<>>]
    /\ outbound' = [outbound EXCEPT ![c] = <<>>]
    /\ UNCHANGED <<sid, stream, nOut, created, req, resp, calls, engine>>

handle_sse(c) ==
    \/ connect_sse(c)
    \/ Teardown(c)

mcp_server_run(c) ==
    \/ EngineProduce(c)
    \/ EngineConsume(c)
    \/ Pump(c)

\* ------------------------------------------------------------ RPC engine
\* Capability descriptors as the engine holds them (mcp.types.Tool objects):
\* more attributes than the listing exposes; description may be None; an
\* inputSchema may hold a value json cannot encode.
PyNone == [py |-> "None"]
PyStr(s) == [py |-> "str", v |-> s]
PyDict(d) == [py |-> "dict", v |-> d]
PyNaN == [py |-> "float", v |-> "nan"]
SchemaObject == PyDict([type |-> PyStr("object")])
SchemaNaN == PyDict([default |-> PyNaN])
Tool(n, d, s) == [name |-> PyStr(n), description |-> d, inputSchema |-> s,
                  annotations |-> PyNone]
Descriptors ==
    { Tool("create_incident", PyStr("Create an incident"), SchemaObject),
      Tool("list_incidents", PyNone, SchemaObject),
      Tool("bad_schema", PyStr("Not encodable"), SchemaNaN) }

\* The tables the engine may return: every sequence of distinct descriptors of
\* length at most MaxTools, the empty table included.
RECURSIVE SeqsUpTo(_, _)
SeqsUpTo(S, n) ==
    IF n = 0 THEN {<<>>}
    ELSE LET shorter == SeqsUpTo(S, n - 1)
         IN shorter \cup
            {t \in {Append(q, x) : q \in shorter, x \in S} :
                \A i \in DOMAIN t : \A j \in DOMAIN t : i # j => t[i] # t[j]}
ToolTables == SeqsUpTo(Descriptors, MaxTools)

\* mcp_server._list_tools_impl(): returns the table or raises Exception(msg).
ErrMsgs == {"ServiceNow unreachable", "tool registry not loaded"}
EngineOutcomes ==
    {[raised |-> FALSE, tools |-> t, msg |-> ""] : t \in ToolTables}
    \cup {[raised |-> TRUE, tools |-> <<>>, msg |-> m] : m \in ErrMsgs}

\* ------------------------------------------------------------ JSON bodies
\* json.dumps as JSONResponse.render calls it: None -> null, str -> string,
\* dict -> object, list -> array; a NaN float raises ValueError.
RECURSIVE JsonEncodable(_)
JsonEncodable(v) ==
    CASE v.py = "None" -> TRUE
      [] v.py = "str" -> TRUE
      [] v.py = "float" -> FALSE
      [] v.py = "dict" -> \A k \in DOMAIN v.v : JsonEncodable(v.v[k])
      [] v.py = "list" -> \A i \in DOMAIN v.items : JsonEncodable(v.items[i])

RECURSIVE JsonEncode(_)
JsonEncode(v) ==
    CASE v.py = "None" -> [js |-> "null"]
      [] v.py = "str" -> [js |-> "string", v |-> v.v]
      [] v.py = "dict" ->
            [js |-> "object", fields |-> [k \in DOMAIN v.v |-> JsonEncode(v.v[k])]]
      [] v.py = "list" ->
            [js |-> "array", items |-> [i \in DOMAIN v.items |-> JsonEncode(v.items[i])]]

JsonErrMsg == "Out of range float values are not JSON compliant"
PlainText(s) == [js |-> "text", v |-> s]

\* A response: status, body, and whether it stands for an exception that left
\* the handler (fault) and was answered by the server's error middleware.
\* handle_messages itself only builds responses with Response.
Response(status, body) == [status |-> status, body |-> body, fault |-> FALSE]
Unhandled(msg) == [status |-> 500, body |-> PlainText("Internal Server Error"),
                   fault |-> TRUE]
\* The outcome of handling one request: the response, the collaborator calls
\* made on the way, and the message handed to a session's inbound channel.
Result(r, cs, d, o) == [resp |-> r, calls |-> cs, deliver |-> d, engine |-> o]

ErrorBody(msg) == PyDict([error |-> PyStr(msg)])

\* --------------------------------------------------------- handle_messages
\* `if not session_id`: None and the empty string are both rejected.
MissingSessionIdEmptyOnly(s) == s = ""
MissingSessionId(s) == s = NoParam \/ s = ""

\* The list comprehension building tools_data.
ToolsDataReversed(tools) ==
    [py |-> "list",
     items |-> [i \in 1..Len(tools) |->
              PyDict([name |-> tools[Len(tools) + 1 - i].name,
                      description |-> tools[Len(tools) + 1 - i].description,
                      inputSchema |-> tools[Len(tools) + 1 - i].inputSchema])]]
ToolsData(tools) ==
    [py |-> "list",
     items |-> [i \in 1..Len(tools) |->
              PyDict([name |-> tools[i].name,
                      description |-> tools[i].description,
                      inputSchema |-> tools[i].inputSchema])]]

\* The try/except of the GET branch: _list_tools_impl, the comprehension and
\* JSONResponse(tools_data) are all inside the try.
ListToolsSerialiseOutsideTry(outcome) ==
    IF outcome.raised
        THEN Response(500, JsonEncode(ErrorBody("Failed to list tools: " \o outcome.msg)))
        ELSE IF JsonEncodable(ToolsData(outcome.tools))
                THEN Response(200, JsonEncode(ToolsData(outcome.tools)))
                ELSE Unhandled(JsonErrMsg)
ListTools(outcome) ==
    IF outcome.raised
        THEN Response(500, JsonEncode(ErrorBody("Failed to list tools: " \o outcome.msg)))
        ELSE IF JsonEncodable(ToolsData(outcome.tools))
                THEN Response(200, JsonEncode(ToolsData(outcome.tools)))
                ELSE Response(500, JsonEncode(ErrorBody("Failed to list tools: " \o JsonErrMsg)))

\* sse.handle_post_message: the transport's message delivery.
handle_post_message(r) ==
    IF r.sid = NoParam
        THEN Result(Response(400, PlainText("MissingParameter")), {}, NoDelivery, NoOutcome)
    ELSE IF r.sid \notin DOMAIN mapping
        THEN Result(Response(404, PlainText("SessionNotFound")), {"lookup"}, NoDelivery, NoOutcome)
    ELSE IF ~r.body.valid
        THEN Result(Response(400, PlainText("ParseError")), {"lookup"}, NoDelivery, NoOutcome)
    ELSE Result(Response(202, PlainText("Accepted")), {"lookup", "enqueue"},
                [to |-> mapping[r.sid], msg |-> r.body.msg], NoOutcome)

GetBranch(r, outcome) ==
    IF MissingSessionId(r.sid)
        THEN Result(Response(400, JsonEncode(ErrorBody("session_id is required"))),
                    {}, NoDelivery, NoOutcome)
        ELSE Result(ListTools(outcome), {"list_tools"}, NoDelivery, outcome)

MethodNotAllowed(r) ==
    Result(Response(405, JsonEncode(ErrorBody("Method " \o r.method \o " not allowed"))),
           {}, NoDelivery, NoOutcome)

handle_messages_get_falls_through(r, outcome) ==
    IF r.method \in {"GET", "POST"} THEN handle_post_message(r)
    ELSE MethodNotAllowed(r)
handle_messages_post_unmatched(r, outcome) ==
    IF r.method = "GET" THEN GetBranch(r, outcome)
    ELSE MethodNotAllowed(r)
handle_messages(r, outcome) ==
    IF r.method = "GET" THEN GetBranch(r, outcome)
    ELSE IF r.method = "POST" THEN handle_post_message(r)
    ELSE MethodNotAllowed(r)

\* Route("/messages/", endpoint=handle_messages, methods=["GET", "POST"]):
\* Starlette adds HEAD to a route that lists GET, and answers every other
\* method itself with 405 "Method Not Allowed" before the endpoint runs.
RouteMethods == {"GET", "POST"} \cup {"HEAD"}
Route(r, outcome) ==
    IF r.method \in RouteMethods
        THEN handle_messages(r, outcome)
        ELSE Result(Response(405, PlainText("Method Not Allowed")), {}, NoDelivery, NoOutcome)

\* A client sends a request to /messages/.
Receive ==
    /\ req = NoReq
    /\ \E r \in Requests : req' = r
    /\ resp' = NoResp
    /\ calls' = {}
    /\ engine' = NoOutcome
    /\ UNCHANGED streamVars

\* The application handles the request in flight and produces its response.
Dispatch ==
    /\ req # NoReq
    /\ resp = NoResp
    /\ \E res \in {Route(req, outcome) : outcome \in EngineOutcomes} :
        /\ res.deliver # NoDelivery => Len(inbound[res.deliver.to]) < MaxQueue
        /\ resp' = res.resp
        /\ calls' = res.calls
        /\ engine' = res.engine
        /\ inbound' = IF res.deliver = NoDelivery THEN inbound
                      ELSE [inbound EXCEPT ![res.deliver.to] = Append(@, res.deliver.msg)]
    /\ UNCHANGED <<mapping, pc, sid, outbound, stream, nOut, created, removed, why, req>>

\* The client reads the response; the exchange is over.
Respond ==
    /\ resp # NoResp
    /\ req' = NoReq
    /\ resp' = NoResp
    /\ calls' = {}
    /\ engine' = NoOutcome
    /\ UNCHANGED streamVars

Next ==
    \/ \E c \in Conns : handle_sse(c)
    \/ \E c \in Conns : mcp_server_run(c)
    \/ Receive
    \/ Dispatch
    \/ Respond

Spec == Init /\ [][Next]_vars

\* ------------------------------------------------------------ properties
\* The step in which the application answers the request in flight.
Handling == req # NoReq /\ resp = NoResp /\ resp' # NoResp
\* A request has been answered and its response not yet read.
Answered == req # NoReq /\ resp # NoResp

ErrorJson(msg) == JsonEncode(ErrorBody(msg))
IsMissingParameter(r) ==
    /\ r.status = 400
    /\ r.body \in {ErrorJson("session_id is required"), PlainText("MissingParameter")}
IsSessionNotFound(r) == r.status = 404
LiveConn(c) == pc[c] = "Open"
ClosedIds == {sid[c] : c \in {d \in Conns : pc[d] = "Closed"}}

\* C1: a GET or POST on /messages/ naming a non-empty session id that is not in
\* the registry is answered SessionNotFound (404); a GET never answers 200
\* for such an id.
C1_UnknownSessionIsNotFound ==
    [][(Handling /\ req.method \in {"GET", "POST"}
                 /\ req.sid \notin {NoParam, ""}
                 /\ req.sid \notin DOMAIN mapping)
          => IsSessionNotFound(resp')]_vars

\* C2: a GET or POST without the session_id parameter is answered
\* MissingParameter (400), and neither the session lookup nor the engine's
\* capability listing was called on the way.
C2_MissingSessionIdRejected ==
    (Answered /\ req.method \in {"GET", "POST"} /\ req.sid = NoParam)
        => /\ IsMissingParameter(resp)
           /\ "lookup" \notin calls
           /\ "list_tools" \notin calls
           /\ "enqueue" \notin calls
           /\ engine = NoOutcome
C2_Witness ==
    /\ Answered /\ req.method = "GET" /\ req.sid = NoParam
    /\ resp.status = 400
    /\ \E c \in Conns : LiveConn(c)

\* C3: a request on /messages/ whose method is neither GET nor POST is
\* answered 405 with an error body that names the rejected method.
C3_OtherMethodsNamedIn405 ==
    (Answered /\ req.method \notin {"GET", "POST"})
        => /\ resp.status = 405
           /\ resp.body = ErrorJson("Method " \o req.method \o " not allowed")

\* C4: dispatch is by method and the two operations are disjoint: answering a
\* GET never runs the delivery handler (no lookup, no enqueue, no channel
\* changes), answering a POST never calls the capability listing, and no
\* request triggers both.
C4_State ==
    Answered =>
        /\ req.method = "GET" => "lookup" \notin calls /\ "enqueue" \notin calls
        /\ req.method = "POST" => "list_tools" \notin calls /\ engine = NoOutcome
        /\ ~("list_tools" \in calls /\ "enqueue" \in calls)
C4_Step ==
    (Handling /\ req.method = "GET") => inbound' = inbound /\ outbound' = outbound
\* C4 (whole claim): GET and POST handling are disjoint, in every state and step.
C4_DisjointDispatch == []C4_State /\ [][C4_Step]_vars
C4_Witness ==
    /\ Answered /\ req.method = "GET" /\ req.body.valid
    /\ req.sid \in DOMAIN mapping
    /\ resp.status = 200
    /\ "list_tools" \in calls

\* C5: however a stream ends (client disconnect, write failure, run()
\* returning, run() raising), its session is created once and removed from the
\* registry once; a POST naming that session handled after the teardown is
\* answered SessionNotFound at once (the handler is enabled, nothing is
\* enqueued).
C5_State ==
    /\ \A c \in Conns :
        /\ created[c] = (IF pc[c] = "idle" THEN 0 ELSE 1)
        /\ removed[c] = (IF pc[c] = "Closed" THEN 1 ELSE 0)
        /\ pc[c] = "Closed" => why[c] \in Reasons /\ sid[c] \notin DOMAIN mapping
        /\ pc[c] = "Open" => sid[c] \in DOMAIN mapping
    /\ (req.method = "POST" /\ resp = NoResp /\ req.sid \in ClosedIds)
          => ENABLED Dispatch
C5_Step ==
    (Handling /\ req.method = "POST" /\ req.sid \in ClosedIds)
        => IsSessionNotFound(resp') /\ inbound' = inbound
\* C5 (whole claim): one creation and one removal per stream lifetime, and a
\* POST after the teardown is answered SessionNotFound without blocking.
C5_TeardownRemovesOnce == []C5_State /\ [][C5_Step]_vars
C5_Witness ==
    \E c \in Conns :
        /\ pc[c] = "Closed" /\ why[c] = "run_raised" /\ removed[c] = 1
        /\ Answered /\ req.method = "POST" /\ req.sid = sid[c] /\ req.body.valid
        /\ resp.status = 404

\* C6: with session_id present, an exception raised while retrieving or
\* serialising the capability table is answered by the handler itself with a
\* 500 whose body carries the exception's message; no fault leaves the GET
\* branch, and handling the GET changes no session or registry state.
RaisedMsg(o) ==
    IF o.raised THEN o.msg
    ELSE IF ~JsonEncodable(ToolsData(o.tools)) THEN JsonErrMsg
    ELSE ""
C6_State ==
    (Answered /\ req.method = "GET" /\ ~MissingSessionId(req.sid))
        => /\ ~resp.fault
           /\ engine # NoOutcome
           /\ RaisedMsg(engine) # ""
                => /\ resp.status = 500
                   /\ resp.body = ErrorJson("Failed to list tools: " \o RaisedMsg(engine))
           /\ RaisedMsg(engine) = "" => resp.status = 200
C6_Step ==
    (Handling /\ req.method = "GET") => UNCHANGED streamVars
\* C6 (whole claim): listing faults become 500 responses carrying the message,
\* and the GET changes no session or registry state.
C6_ListingFaultsCaught == []C6_State /\ [][C6_Step]_vars
C6_Witness ==
    /\ Answered /\ req.method = "GET" /\ req.sid \in DOMAIN mapping
    /\ ~engine.raised /\ Len(engine.tools) = 2
    /\ resp.status = 500
    /\ resp.body = ErrorJson("Failed to list tools: " \o JsonErrMsg)

\* C7: a successful GET listing is a JSON array with one entry per descriptor
\* of the table the engine returned (the empty table included), in the
\* engine's order, each entry an object with exactly the fields name,
\* description and inputSchema holding the engine's values.
C7_ListingIsTheTable ==
    (Answered /\ req.method = "GET" /\ resp.status = 200)
        => /\ ~engine.raised
           /\ resp.body.js = "array"
           /\ DOMAIN resp.body.items = 1..Len(engine.tools)
           /\ \A i \in 1..Len(engine.tools) :
                LET e == resp.body.items[i] IN
                /\ e.js = "object"
                /\ DOMAIN e.fields = {"name", "description", "inputSchema"}
                /\ e.fields.name = JsonEncode(engine.tools[i].name)
                /\ e.fields.description = JsonEncode(engine.tools[i].description)
                /\ e.fields.inputSchema = JsonEncode(engine.tools[i].inputSchema)
C7_Witness ==
    /\ Answered /\ req.method = "GET" /\ resp.status = 200
    /\ Len(engine.tools) = 2
    /\ engine.tools[1] # engine.tools[2]
    /\ engine.tools[2].description = PyNone
    /\ resp.body.items[2].fields.description = [js |-> "null"]

\* C8: a POST naming a live session with a well-formed body is acknowledged and
\* appends the message once to that session's inbound channel, leaving every
\* other channel as it was; a POST naming an id that is not in the registry
\* changes no channel.
C8_Step ==
    (Handling /\ req.method = "POST") =>
        IF req.sid \in DOMAIN mapping /\ req.body.valid
            THEN /\ resp'.status = 202
                 /\ inbound' = [inbound EXCEPT
                                  ![mapping[req.sid]] = Append(@, req.body.msg)]
                 /\ outbound' = outbound
            ELSE /\ resp'.status # 202
                 /\ inbound' = inbound
                 /\ outbound' = outbound
\* C8 (whole claim): every POST handling step delivers exactly once to the
\* named live session, or changes no channel.
C8_DeliveryExactlyOnce == [][C8_Step]_vars
C8_Witness ==
    \E c \in Conns : \E d \in Conns \ {c} :
        /\ LiveConn(c) /\ LiveConn(d)
        /\ Answered /\ req.method = "POST" /\ req.sid = sid[c]
        /\ resp.status = 202
        /\ Len(inbound[c]) = 2
        /\ inbound[c][2] = req.body.msg
        /\ inbound[c][1] # req.body.msg
        /\ inbound[d] = <<>>

\* C9: every stream open creates one session, and its id differs from the id
\* of every other session, live or already closed.
C9_SessionIdsUnique ==
    /\ \A c \in Conns : \A d \in Conns \ {c} :
          (pc[c] # "idle" /\ pc[d] # "idle") => sid[c] # sid[d]
    /\ \A c \in Conns :
          /\ created[c] = (IF pc[c] = "idle" THEN 0 ELSE 1)
          /\ LiveConn(c) => {i \in DOMAIN mapping : mapping[i] = c} = {sid[c]}
    /\ Cardinality(DOMAIN mapping) = Cardinality({c \in Conns : LiveConn(c)})
C9_Witness ==
    \E c \in Conns : \E d \in Conns \ {c} :
        /\ pc[c] = "Closed" /\ LiveConn(d)
        /\ sid[c] \notin DOMAIN mapping
        /\ sid[d] # sid[c]

\* C10: the messages the engine enqueues for a session reach that session's
\* event stream in the order enqueued, none dropped, duplicated or reordered,
\* and reach no other stream.
Produced(c) ==
    <<EndpointEvent(sid[c])>> \o [k \in 1..nOut[c] |-> MessageEvent(c, k)]
\* C10 (whole claim): each stream is a prefix of what the engine enqueued for
\* that session, in order, and nothing is lost while the stream is open.
C10_OutboundFifo ==
    \A c \in Conns :
        /\ LiveConn(c) => stream[c] \o outbound[c] = Produced(c)
        /\ pc[c] = "Closed" =>
              /\ Len(stream[c]) <= Len(Produced(c))
              /\ stream[c] = SubSeq(Produced(c), 1, Len(stream[c]))
        /\ \A i \in 1..Len(stream[c]) :
              stream[c][i].event = "message" => stream[c][i].data[1] = c
C10_Witness ==
    \E c \in Conns : \E d \in Conns \ {c} :
        /\ LiveConn(c) /\ LiveConn(d)
        /\ Len(stream[c]) = 3
        /\ Len(stream[d]) = 2
        /\ outbound[d] # <<>>
====
